---- MODULE Spec2Model ----
\* A model of tools/kconfig_to_cmake.py: the translation of a Kconfig symbol
\* tree (as resolved by kconfiglib) into a CMake cache snippet.
\*
\* Python str values are modelled as sequences of one-character strings, so
\* that concatenation, escaping, comparison and joining are computed and not
\* assumed.  A dict is a function from keys to values.
EXTENDS Integers, Sequences, FiniteSets, TLC

VARIABLES
    kconfiglib_installed, \* whether "import kconfiglib" succeeds
    kconfig_is_file,      \* kconfig_path.is_file()
    config_is_file,       \* config_path.is_file()
    out_dir,              \* whether output_path.parent exists
    out_file,             \* content of output_path (a text), or NoFile
    stderr,               \* the diagnostics written so far
    pc,                   \* position of the current call of _generate_cache
    rc,                   \* value returned by the call, NoRc while it runs
    syms,                 \* kconf.unique_defined_syms of the current call
    idx,                  \* position of the for loop in syms
    defines,              \* the local dict defines
    cmake_sets,           \* the local list cmake_sets
    output_lines,         \* the local list output_lines
    runs,                 \* number of calls started so far
    prev_file             \* content of output_path when the current call started

vars == <<kconfiglib_installed, kconfig_is_file, config_is_file, out_dir,
          out_file, stderr, pc, rc, syms, idx, defines, cmake_sets,
          output_lines, runs, prev_file>>

env == <<kconfiglib_installed, kconfig_is_file, config_is_file>>
locals == <<syms, idx, defines, cmake_sets, output_lines>>

\* ------------------------------------------------------------------ bounds
MaxSyms == 2      \* symbols in a schema tree
MaxRuns == 2      \* calls chained against the same output path
MaxStrLen == 4    \* length of a string value in the escaping round trip

\* ------------------------------------------------------------------ text
NoFile == <<"<no file>">>   \* differs from every text
NoRc == 0 - 1
NL == "\n"
BS == "\\"
DQ == "\""

\* Code points of the characters that occur in define keys (Python compares
\* str by code point).
AsciiUpper == <<"A", "B", "C", "D", "E", "F", "G", "H", "I", "J", "K", "L", "M",
                "N", "O", "P", "Q", "R", "S", "T", "U", "V", "W", "X", "Y", "Z">>

Ord(c) ==
    IF \E i \in 1..Len(AsciiUpper) : AsciiUpper[i] = c
    THEN 64 + (CHOOSE i \in 1..Len(AsciiUpper) : AsciiUpper[i] = c)
    ELSE IF c = "_" THEN 95 ELSE 0

\* s < t for Python str.
RECURSIVE StrLess(_, _)
StrLess(s, t) ==
    IF t = <<>> THEN FALSE
    ELSE IF s = <<>> THEN TRUE
    ELSE IF Head(s) = Head(t) THEN StrLess(Tail(s), Tail(t))
    ELSE Ord(Head(s)) < Ord(Head(t))

\* Sorted gone wrong: descending order.
RECURSIVE Sorted_Descending(_)
Sorted_Descending(S) ==
    IF S = {} THEN <<>>
    ELSE LET m == CHOOSE x \in S : \A y \in S \ {x} : StrLess(y, x)
         IN <<m>> \o Sorted_Descending(S \ {m})

\* sorted(d): the keys of a dict in ascending order.
RECURSIVE Sorted(_)
Sorted(S) ==
    IF S = {} THEN <<>>
    ELSE LET m == CHOOSE x \in S : \A y \in S \ {x} : StrLess(x, y)
         IN <<m>> \o Sorted(S \ {m})

\* str.replace(old, new) for a one-character old.
RECURSIVE Replace(_, _, _)
Replace(s, old, new) ==
    IF s = <<>> THEN <<>>
    ELSE (IF Head(s) = old THEN new ELSE <<Head(s)>>) \o Replace(Tail(s), old, new)

\* _cmake_escape gone wrong: the quotes are escaped before the backslashes.
_cmake_escape_QuoteFirst(v) == Replace(Replace(v, DQ, <<BS, DQ>>), BS, <<BS, BS>>)

_cmake_escape(v) == Replace(Replace(v, BS, <<BS, BS>>), DQ, <<BS, DQ>>)

\* sep.join(lines)
RECURSIVE Join(_)
Join(lines) ==
    IF lines = <<>> THEN <<>>
    ELSE IF Len(lines) = 1 THEN lines[1]
    ELSE lines[1] \o <<NL>> \o Join(Tail(lines))

CONFIG_ == <<"C", "O", "N", "F", "I", "G", "_">>
_MODULE == <<"_", "M", "O", "D", "U", "L", "E">>

PlaceholderBanner ==
    <<"#", " ", "A", "u", "t", "o", "-", "g", "e", "n", "e", "r", "a", "t", "e",
      "d", " ", "p", "l", "a", "c", "e", "h", "o", "l", "d", "e", "r", ".", " ",
      "R", "u", "n", " ", "m", "e", "n", "u", "c", "o", "n", "f", "i", "g", " ",
      "t", "o", " ", "p", "o", "p", "u", "l", "a", "t", "e", " ", "s", "y", "m",
      "b", "o", "l", "s", ".">>

SetDefinesOpen ==
    <<"s", "e", "t", "(", "A", "E", "R", "O", "S", "Y", "N", "C", "_", "K", "C",
      "O", "N", "F", "I", "G", "_", "D", "E", "F", "I", "N", "E", "S">>

Banner ==
    <<"#", " ", "T", "h", "i", "s", " ", "f", "i", "l", "e", " ", "i", "s", " ",
      "a", "u", "t", "o", "-", "g", "e", "n", "e", "r", "a", "t", "e", "d", ".",
      " ", "D", "o", " ", "n", "o", "t", " ", "e", "d", "i", "t", ".">>

\* MinimalOutput gone wrong: the collection is left open.
MinimalOutput_Unclosed ==
    PlaceholderBanner \o <<NL>> \o SetDefinesOpen \o <<NL>>

MinimalOutput ==
    PlaceholderBanner \o <<NL>> \o SetDefinesOpen \o <<")", NL>>

\* f"set(CONFIG_{name} \"{text}\")"
SetLine(name, text) ==
    <<"s", "e", "t", "(">> \o CONFIG_ \o name \o <<" ", DQ>> \o text \o <<DQ, ")">>

\* f"    \"{_cmake_escape(name)}={_cmake_escape(value)}\""
DefineLine(name, val) ==
    <<" ", " ", " ", " ", DQ>> \o _cmake_escape(name) \o <<"=">>
        \o _cmake_escape(val) \o <<DQ>>

\* ------------------------------------------------------------------ symbols
\* What kconfiglib hands to the loop: a symbol's name, type, tri_value and
\* str_value.  tri_value is 0 for the non-bool types; str_value of a bool or
\* tristate is "n", "m" or "y".
FOO == <<"F", "O", "O">>

\* FOO_MODULE and CONFIG_FOO are legal Kconfig symbol names, and are the names
\* whose define keys meet those derived from FOO.
Names == {FOO, FOO \o _MODULE, CONFIG_ \o FOO}

TriStr(t) == IF t = 0 THEN <<"n">> ELSE IF t = 1 THEN <<"m">> ELSE <<"y">>

Sym(n, ty, tri, str) == [name |-> n, type |-> ty, tri_value |-> tri, str_value |-> str]

IntValues == {<<>>, <<"7">>}
HexValues == {<<>>, <<"0", "x", "1", "F">>}
StringValues == {<<>>, <<"a">>, <<"a", BS, DQ>>}

SymsNamed(n) ==
    {Sym(n, "BOOL", t, TriStr(t)) : t \in {0, 2}}
    \cup {Sym(n, "TRISTATE", t, TriStr(t)) : t \in {0, 1, 2}}
    \cup {Sym(n, "INT", 0, v) : v \in IntValues}
    \cup {Sym(n, "HEX", 0, v) : v \in HexValues}
    \cup {Sym(n, "STRING", 0, v) : v \in StringValues}

AllSyms == UNION {SymsNamed(n) : n \in Names}

\* unique_defined_syms: each symbol once, in declaration order.
Trees(max) ==
    UNION {{t \in [1..k -> AllSyms] :
               \A i, j \in 1..k : i # j => t[i].name # t[j].name} : k \in 0..max}

\* Strings over an alphabet with backslash and double quote.
Alphabet == {"a", BS, DQ}
Values(max) == UNION {[1..k -> Alphabet] : k \in 0..max}
\* The trees of the chained runs: no symbol, or one.
RunTrees == {<<>>} \cup {<<s>> : s \in AllSyms}

EscapeTrees == {<<Sym(FOO, "STRING", 0, v)>> : v \in Values(MaxStrLen)}

\* ------------------------------------------------------------------ the loop body
set_define(d, name, val) == (name :> val) @@ d

\* emit_symbol gone wrong: the CONFIG_ form is written only when plain is not.
emit_symbol_PlainOnly(d, name, val, plain) ==
    IF plain THEN set_define(d, name, val) ELSE set_define(d, CONFIG_ \o name, val)

emit_symbol(d, name, val, plain) ==
    set_define(IF plain THEN set_define(d, name, val) ELSE d, CONFIG_ \o name, val)

\* TristateDefines gone wrong: a module-selected symbol is emitted as "1".
TristateDefines_ModuleAsOne(sym, d) ==
    IF sym.tri_value = 0 THEN d
    ELSE IF sym.tri_value = 2 THEN emit_symbol(d, sym.name, <<"1">>, TRUE)
    ELSE emit_symbol(emit_symbol(d, sym.name, <<"1">>, TRUE),
                     sym.name \o _MODULE, <<"1">>, TRUE)

\* defines after the bool / tristate branch of the loop body.
TristateDefines(sym, d) ==
    IF sym.tri_value = 0 THEN d
    ELSE IF sym.tri_value = 2 THEN emit_symbol(d, sym.name, <<"1">>, TRUE)
    ELSE IF sym.tri_value = 1 THEN
        emit_symbol(emit_symbol(d, sym.name, <<"m">>, TRUE),
                    sym.name \o _MODULE, <<"1">>, TRUE)
    ELSE d

\* ValueDefines gone wrong: a string value is emitted without its quotes.
ValueDefines_Unquoted(sym, d) ==
    IF sym.str_value = <<>> THEN d
    ELSE emit_symbol(d, sym.name, sym.str_value, TRUE)

\* defines after the int / hex / string branch of the loop body.
ValueDefines(sym, d) ==
    IF sym.str_value = <<>> THEN d
    ELSE IF sym.type = "STRING"
         THEN emit_symbol(d, sym.name, <<DQ>> \o sym.str_value \o <<DQ>>, TRUE)
         ELSE emit_symbol(d, sym.name, sym.str_value, TRUE)

\* defines after one iteration of the for loop on sym.
VisitDefines(sym, d) ==
    IF sym.name = <<>> THEN d
    ELSE IF sym.type \in {"BOOL", "TRISTATE"} THEN TristateDefines(sym, d)
    ELSE IF sym.type \in {"INT", "HEX", "STRING"} THEN ValueDefines(sym, d)
    ELSE d

\* VisitSets gone wrong: an unselected bool or tristate is set to "n".
VisitSets_UnselectedSet(sym, sets) ==
    IF sym.type \in {"BOOL", "TRISTATE"} THEN
        Append(sets, SetLine(sym.name, sym.str_value))
    ELSE IF sym.str_value = <<>> THEN sets
    ELSE Append(sets, SetLine(sym.name, _cmake_escape(sym.str_value)))

\* cmake_sets after one iteration of the for loop on sym.
VisitSets(sym, sets) ==
    IF sym.name = <<>> THEN sets
    ELSE IF sym.type \in {"BOOL", "TRISTATE"} THEN
        IF sym.tri_value = 0 THEN sets
        ELSE IF sym.tri_value = 2 THEN Append(sets, SetLine(sym.name, <<"y">>))
        ELSE IF sym.tri_value = 1 THEN Append(sets, SetLine(sym.name, <<"m">>))
        ELSE sets
    ELSE IF sym.type \in {"INT", "HEX", "STRING"} THEN
        IF sym.str_value = <<>> THEN sets
        ELSE Append(sets, SetLine(sym.name, _cmake_escape(sym.str_value)))
    ELSE sets

\* output_lines as assembled after the loop.
AssembleLines(d, sets) ==
    LET names == Sorted(DOMAIN d)
    IN <<Banner, SetDefinesOpen>>
       \o [i \in 1..Len(names) |-> DefineLine(names[i], d[names[i]])]
       \o <<<<")", NL>>>>
       \o sets
       \o <<<<NL>>>>

\* write_text gone wrong: the text is appended to what the file held.
write_text_Append(old, text) == IF old = NoFile THEN text ELSE old \o text

\* Path.write_text: the file holds the text, whatever it held before.
write_text(old, text) == text

NoDefines == <<>>

\* ------------------------------------------------------------------ the call
Init ==
    /\ kconfiglib_installed \in BOOLEAN
    /\ kconfig_is_file \in BOOLEAN
    /\ config_is_file \in BOOLEAN
    /\ out_dir = FALSE
    /\ out_file = NoFile
    /\ stderr = <<>>
    /\ pc = "start"
    /\ rc = NoRc
    /\ syms = <<>>
    /\ idx = 1
    /\ defines = NoDefines
    /\ cmake_sets = <<>>
    /\ output_lines = <<>>
    /\ runs = 1
    /\ prev_file = NoFile

\* ImportFails gone wrong: the placeholder is written before returning 1.
ImportFails_Writes ==
    /\ pc = "start"
    /\ ~kconfiglib_installed
    /\ stderr' = Append(stderr, "kconfiglib is not installed.")
    /\ out_dir' = TRUE
    /\ out_file' = MinimalOutput
    /\ rc' = 1
    /\ pc' = "done"
    /\ UNCHANGED <<env, locals, runs, prev_file>>

\* import kconfiglib raises ModuleNotFoundError.
ImportFails ==
    /\ pc = "start"
    /\ ~kconfiglib_installed
    /\ stderr' = Append(stderr, "kconfiglib is not installed.")
    /\ rc' = 1
    /\ pc' = "done"
    /\ UNCHANGED <<env, out_dir, out_file, locals, runs, prev_file>>

\* kconfig_path is no file: warning, _write_minimal_output, return 0.
KconfigMissing ==
    /\ pc = "start"
    /\ kconfiglib_installed
    /\ ~kconfig_is_file
    /\ stderr' = Append(stderr, "warning: Kconfig file not found; emitting empty cache.")
    /\ out_dir' = TRUE
    /\ out_file' = write_text(out_file, MinimalOutput)
    /\ rc' = 0
    /\ pc' = "done"
    /\ UNCHANGED <<env, locals, runs, prev_file>>

\* kconfiglib.Kconfig(...) and load_config(...): the symbols carry the values
\* the selection file resolves them to.
LoadConfig(trees) ==
    /\ pc = "start"
    /\ kconfiglib_installed
    /\ kconfig_is_file
    /\ config_is_file
    /\ \E t \in trees : syms' = t
    /\ idx' = 1
    /\ defines' = NoDefines
    /\ cmake_sets' = <<>>
    /\ pc' = "loop"
    /\ UNCHANGED <<env, out_dir, out_file, stderr, rc, output_lines, runs, prev_file>>

\* LoadDefaults gone wrong: a missing selection file ends the call with 1.
LoadDefaults_Fatal(trees) ==
    /\ pc = "start"
    /\ kconfiglib_installed
    /\ kconfig_is_file
    /\ ~config_is_file
    /\ stderr' = Append(stderr, "warning: config file not found; continuing with defaults.")
    /\ rc' = 1
    /\ pc' = "done"
    /\ UNCHANGED <<env, out_dir, out_file, locals, runs, prev_file>>

\* kconfiglib.Kconfig(...) alone: the symbols carry the schema's defaults.
LoadDefaults(trees) ==
    /\ pc = "start"
    /\ kconfiglib_installed
    /\ kconfig_is_file
    /\ ~config_is_file
    /\ \E t \in trees : syms' = t
    /\ stderr' = Append(stderr, "warning: config file not found; continuing with defaults.")
    /\ idx' = 1
    /\ defines' = NoDefines
    /\ cmake_sets' = <<>>
    /\ pc' = "loop"
    /\ UNCHANGED <<env, out_dir, out_file, rc, output_lines, runs, prev_file>>

\* One iteration of "for sym in kconf.unique_defined_syms".
ForSym ==
    /\ pc = "loop"
    /\ idx <= Len(syms)
    /\ defines' = VisitDefines(syms[idx], defines)
    /\ cmake_sets' = VisitSets(syms[idx], cmake_sets)
    /\ idx' = idx + 1
    /\ UNCHANGED <<env, out_dir, out_file, stderr, pc, rc, syms, output_lines, runs,
                   prev_file>>

\* The loop is over: assemble output_lines, create the directory, write, return 0.
WriteOutput ==
    /\ pc = "loop"
    /\ idx > Len(syms)
    /\ output_lines' = AssembleLines(defines, cmake_sets)
    /\ out_dir' = TRUE
    /\ out_file' = write_text(out_file, Join(output_lines'))
    /\ rc' = 0
    /\ pc' = "done"
    /\ UNCHANGED <<env, stderr, syms, idx, defines, cmake_sets, runs, prev_file>>

\* The tool is invoked again, in a new process, on the same output path; the
\* inputs may have changed in between.
NewRun ==
    /\ pc = "done"
    /\ runs < MaxRuns
    /\ kconfiglib_installed' \in BOOLEAN
    /\ kconfig_is_file' \in BOOLEAN
    /\ config_is_file' \in BOOLEAN
    /\ stderr' = <<>>
    /\ pc' = "start"
    /\ rc' = NoRc
    /\ syms' = <<>>
    /\ idx' = 1
    /\ defines' = NoDefines
    /\ cmake_sets' = <<>>
    /\ output_lines' = <<>>
    /\ runs' = runs + 1
    /\ prev_file' = out_file
    /\ UNCHANGED <<out_dir, out_file>>

\* One call on any schema tree of up to MaxSyms symbols.
Next ==
    \/ ImportFails
    \/ KconfigMissing
    \/ LoadConfig(Trees(MaxSyms))
    \/ LoadDefaults(Trees(MaxSyms))
    \/ ForSym
    \/ WriteOutput

Spec == Init /\ [][Next]_vars

\* Up to MaxRuns calls in a row against the same output path.
NextRuns ==
    \/ ImportFails
    \/ KconfigMissing
    \/ LoadConfig(RunTrees)
    \/ LoadDefaults(RunTrees)
    \/ ForSym
    \/ WriteOutput
    \/ NewRun

SpecRuns == Init /\ [][NextRuns]_vars

\* One call on a tree of one string symbol, its value any string of up to
\* MaxStrLen characters over Alphabet.
NextEscape ==
    \/ LoadConfig(EscapeTrees)
    \/ ForSym
    \/ WriteOutput

InitEscape ==
    /\ Init
    /\ kconfiglib_installed = TRUE
    /\ kconfig_is_file = TRUE
    /\ config_is_file = TRUE

SpecEscape == InitEscape /\ [][NextEscape]_vars

\* ------------------------------------------------------------------ reading the document
\* The call returned 0 on the full path: output_lines is what was joined and
\* written.
FullDocWritten == pc = "done" /\ rc = 0 /\ kconfig_is_file

\* Index of the line that closes the aggregated collection.
CloseAt(lines) == CHOOSE i \in 1..Len(lines) :
    /\ lines[i] = <<")", NL>>
    /\ \A j \in 1..(i - 1) : lines[j] # <<")", NL>>

\* The entries of set(AEROSYNC_KCONFIG_DEFINES ...), and the statements after it.
Entries(lines) == SubSeq(lines, 3, CloseAt(lines) - 1)
Statements(lines) == SubSeq(lines, CloseAt(lines) + 1, Len(lines) - 1)

FirstAt(line, c) == CHOOSE i \in 1..Len(line) :
    line[i] = c /\ \A j \in 1..(i - 1) : line[j] # c

\* The key of the entry     "KEY=VALUE"   and of the statement   set(KEY "VALUE").
EntryKey(line) == SubSeq(line, 6, FirstAt(line, "=") - 1)
StatementKey(line) == SubSeq(line, 5, FirstAt(line, " ") - 1)

\* The entry and the statement as the artifact spells them.
EntryText(key, val) == <<" ", " ", " ", " ", DQ>> \o key \o <<"=">> \o val \o <<DQ>>
StatementText(key, val) == <<"s", "e", "t", "(">> \o key \o <<" ", DQ>> \o val \o <<DQ, ")">>

Range(seq) == {seq[i] : i \in 1..Len(seq)}

\* A symbol that resolves to something the loop emits.
Emits(s) ==
    \/ s.type \in {"BOOL", "TRISTATE"} /\ s.tri_value # 0
    \/ s.type \in {"INT", "HEX", "STRING"} /\ s.str_value # <<>>

ModuleSelected(s) == s.type = "TRISTATE" /\ s.tri_value = 1

\* The define keys a symbol writes.
KeysOf(s) ==
    IF ~Emits(s) THEN {}
    ELSE {s.name, CONFIG_ \o s.name}
         \cup (IF ModuleSelected(s)
               THEN {s.name \o _MODULE, CONFIG_ \o s.name \o _MODULE} ELSE {})

\* No other symbol of the tree writes a define under one of keys.
Alone(i, keys) == \A j \in 1..Len(syms) : j # i => KeysOf(syms[j]) \cap keys = {}

\* ------------------------------------------------------------------ C1
ModuleKeys(n) == {n, CONFIG_ \o n, n \o _MODULE, CONFIG_ \o n \o _MODULE}

EntriesUnder(keys) == {e \in Range(Entries(output_lines)) : EntryKey(e) \in keys}

C2_AsStated ==
    FullDocWritten =>
        \A i \in 1..Len(syms) :
            syms[i].type = "BOOL" /\ syms[i].tri_value = 2 =>
                LET n == syms[i].name
                IN /\ EntryText(n, <<"1">>) \in Range(Entries(output_lines))
                   /\ EntryText(CONFIG_ \o n, <<"1">>) \in Range(Entries(output_lines))
                   /\ StatementText(CONFIG_ \o n, <<"y">>) \in Range(Statements(output_lines))

\* C2 (amended): for every tree and every fully-selected boolean FOO in it,
\* the artifact holds the statement set(CONFIG_FOO "y") and, when no other
\* symbol of the tree writes a define under FOO or CONFIG_FOO, the entries
\* FOO=1 and CONFIG_FOO=1.
C2_BoolEntries ==
    FullDocWritten =>
        /\ out_file = Join(output_lines)
        /\ \A i \in 1..Len(syms) :
            syms[i].type = "BOOL" /\ syms[i].tri_value = 2 =>
                LET n == syms[i].name
                IN /\ StatementText(CONFIG_ \o n, <<"y">>) \in Range(Statements(output_lines))
                   /\ Alone(i, {n, CONFIG_ \o n}) =>
                        /\ EntryText(n, <<"1">>) \in Range(Entries(output_lines))
                        /\ EntryText(CONFIG_ \o n, <<"1">>) \in Range(Entries(output_lines))

C2_Witness ==
    /\ FullDocWritten
    /\ \E i, j \in 1..Len(syms) :
        /\ i < j
        /\ syms[i].type = "BOOL" /\ syms[i].tri_value = 2
        /\ Alone(i, {syms[i].name, CONFIG_ \o syms[i].name})
        /\ Emits(syms[j])
        /\ EntryText(CONFIG_ \o syms[i].name, <<"1">>) \in Range(Entries(output_lines))

\* ------------------------------------------------------------------ C3
\* C3 as stated: for every tree and every unselected boolean in it, no entry
\* and no statement of the artifact has the symbol's name or its
\* CONFIG_-prefixed name as key, whatever the other symbols are.
C3_AsStated ==
    FullDocWritten =>
        \A i \in 1..Len(syms) :
            syms[i].type = "BOOL" /\ syms[i].tri_value = 0 =>
                LET keys == {syms[i].name, CONFIG_ \o syms[i].name}
                IN /\ \A e \in Range(Entries(output_lines)) : EntryKey(e) \notin keys
                   /\ \A t \in Range(Statements(output_lines)) : StatementKey(t) \notin keys

\* C3 (amended): for every tree and every unselected boolean in it, when no
\* other symbol of the tree writes under the symbol's name or its
\* CONFIG_-prefixed name, no entry and no statement of the artifact has one
\* of the two as key.
C3_UnselectedAbsent ==
    FullDocWritten =>
        /\ out_file = Join(output_lines)
        /\ \A i \in 1..Len(syms) :
            LET keys == {syms[i].name, CONFIG_ \o syms[i].name}
            IN syms[i].type = "BOOL" /\ syms[i].tri_value = 0 /\ Alone(i, keys) =>
                /\ \A e \in Range(Entries(output_lines)) : EntryKey(e) \notin keys
                /\ \A t \in Range(Statements(output_lines)) : StatementKey(t) \notin keys

C3_Witness ==
    /\ FullDocWritten
    /\ \E i, j \in 1..Len(syms) :
        /\ i # j
        /\ syms[i].type = "BOOL" /\ syms[i].tri_value = 0
        /\ Alone(i, {syms[i].name, CONFIG_ \o syms[i].name})
        /\ Emits(syms[j])
        /\ Len(Entries(output_lines)) >= 2

\* ------------------------------------------------------------------ C4
\* C4: when kconfiglib cannot be imported the call returns 1 and writes
\* nothing: the output file and its parent directory are as they were,
\* whether or not the schema and the selection file exist.
C4_NoInterpreterNoWrite ==
    [][(pc = "start" /\ ~kconfiglib_installed) =>
           /\ pc' = "done"
           /\ rc' = 1
           /\ out_file' = out_file
           /\ out_dir' = out_dir]_vars

C4_Witness ==
    /\ pc = "done"
    /\ ~kconfiglib_installed
    /\ rc = 1
    /\ kconfig_is_file
    /\ out_file # NoFile
    /\ out_file = prev_file

\* ------------------------------------------------------------------ C5
PlaceholderText ==
    PlaceholderBanner \o <<NL>> \o SetDefinesOpen \o <<")">> \o <<NL>>

\* C5: with the interpreter available and no schema file, the call returns 0
\* and the output file is exactly the two-line placeholder, whether or not
\* the selection file exists and whatever the output file held before.
C5_PlaceholderExact ==
    (pc = "done" /\ kconfiglib_installed /\ ~kconfig_is_file) =>
        /\ rc = 0
        /\ out_dir
        /\ out_file = PlaceholderText

C5_Witness ==
    /\ pc = "done"
    /\ kconfiglib_installed
    /\ ~kconfig_is_file
    /\ config_is_file
    /\ prev_file \notin {NoFile, PlaceholderText}
    /\ out_file = PlaceholderText

\* ------------------------------------------------------------------ C6
\* C6: over every combination of interpreter, schema file and selection file,
\* the call returns 1 only when the interpreter is unavailable; otherwise it
\* returns 0 and has written the output file: the full document when the
\* schema is present (a missing selection file included), the placeholder
\* when it is not.
C6_OnlyInterpreterFatal ==
    pc = "done" =>
        /\ rc \in {0, 1}
        /\ rc = 1 <=> ~kconfiglib_installed
        /\ ~kconfiglib_installed => out_file = NoFile
        /\ (kconfiglib_installed /\ ~kconfig_is_file) => out_file = PlaceholderText
        /\ (kconfiglib_installed /\ kconfig_is_file) =>
            /\ out_file = Join(output_lines)
            /\ Len(output_lines) >= 4
            /\ output_lines[1] = Banner
            /\ output_lines[2] = SetDefinesOpen
            /\ Len(Statements(output_lines)) = Len(cmake_sets)

C6_Witness ==
    /\ pc = "done"
    /\ kconfiglib_installed
    /\ kconfig_is_file
    /\ ~config_is_file
    /\ rc = 0
    /\ Len(syms) = MaxSyms
    /\ out_file # NoFile

\* ------------------------------------------------------------------ C7
\* The define keys the symbols of Names can write, in ascending order of
\* Python's str comparison.
AscendingKeys ==
    <<CONFIG_ \o CONFIG_ \o FOO,
      CONFIG_ \o CONFIG_ \o FOO \o _MODULE,
      CONFIG_ \o FOO,
      CONFIG_ \o FOO \o _MODULE,
      CONFIG_ \o FOO \o _MODULE \o _MODULE,
      FOO,
      FOO \o _MODULE,
      FOO \o _MODULE \o _MODULE>>

KeyRank(k) == CHOOSE r \in 1..Len(AscendingKeys) : AscendingKeys[r] = k

\* The names of the symbols that emit, in enumeration order.
RECURSIVE EmittingNames(_)
EmittingNames(tree) ==
    IF tree = <<>> THEN <<>>
    ELSE (IF Emits(Head(tree)) THEN <<Head(tree).name>> ELSE <<>>)
         \o EmittingNames(Tail(tree))

\* C7: the entries of the aggregated collection are in ascending order of
\* their key, each key once, and the statements are in the order in which the
\* symbols are enumerated, for every tree and declaration order.
C7_SortedEntriesOrderedStatements ==
    FullDocWritten =>
        LET es == Entries(output_lines)
            ss == Statements(output_lines)
            ns == EmittingNames(syms)
        IN /\ out_file = Join(output_lines)
           /\ {EntryKey(es[a]) : a \in 1..Len(es)} = DOMAIN defines
           /\ \A a \in 1..Len(es) : \E r \in 1..Len(AscendingKeys) :
                  AscendingKeys[r] = EntryKey(es[a])
           /\ \A a, b \in 1..Len(es) :
                  a < b => KeyRank(EntryKey(es[a])) < KeyRank(EntryKey(es[b]))
           /\ Len(ss) = Len(ns)
           /\ \A a \in 1..Len(ss) : StatementKey(ss[a]) = CONFIG_ \o ns[a]

\* Two emitting symbols declared against the order of their keys.
C7_Witness ==
    /\ FullDocWritten
    /\ Len(syms) >= 2
    /\ Emits(syms[1]) /\ Emits(syms[2])
    /\ syms[1].name = FOO
    /\ syms[2].name = CONFIG_ \o FOO
    /\ Len(Entries(output_lines)) >= 3
    /\ Len(Statements(output_lines)) = 2

\* ------------------------------------------------------------------ C8
\* A quoted literal read back:  \\ is \,  \" is ".
RECURSIVE Unescape(_)
Unescape(e) ==
    IF e = <<>> THEN <<>>
    ELSE IF Head(e) = BS /\ Len(e) >= 2
         THEN <<e[2]>> \o Unescape(SubSeq(e, 3, Len(e)))
         ELSE <<Head(e)>> \o Unescape(Tail(e))

\* No double quote but after a backslash that escapes it.
RECURSIVE NoBareQuote(_)
NoBareQuote(e) ==
    IF e = <<>> THEN TRUE
    ELSE IF Head(e) = BS THEN Len(e) >= 2 /\ NoBareQuote(SubSeq(e, 3, Len(e)))
    ELSE IF Head(e) = DQ THEN FALSE
    ELSE NoBareQuote(Tail(e))

\* The text between the outer quotes of   set(KEY "TEXT")
Quoted(stmt) == SubSeq(stmt, FirstAt(stmt, DQ) + 1, Len(stmt) - 2)

\* C8: for a string symbol and any non-empty value over an alphabet with
\* backslash and double quote, the statement written for it is
\* set(CONFIG_<name> "<text>") where <text> has no unescaped double quote and
\* reads back, as a quoted literal, as the value.
C8_EscapeRoundTrip ==
    FullDocWritten =>
        \A i \in 1..Len(syms) :
            (Len(syms) = 1 /\ syms[i].type = "STRING" /\ syms[i].str_value # <<>>) =>
                LET ss == Statements(output_lines)
                IN /\ Len(ss) = 1
                   /\ StatementKey(ss[1]) = CONFIG_ \o syms[i].name
                   /\ ss[1] = StatementText(CONFIG_ \o syms[i].name, Quoted(ss[1]))
                   /\ NoBareQuote(Quoted(ss[1]))
                   /\ Unescape(Quoted(ss[1])) = syms[i].str_value

\* A value where a backslash precedes a double quote.
C8_Witness ==
    /\ FullDocWritten
    /\ Len(syms) = 1
    /\ \E k \in 1..(Len(syms[1].str_value) - 1) :
        syms[1].str_value[k] = BS /\ syms[1].str_value[k + 1] = DQ
    /\ Len(Statements(output_lines)) = 1
    /\ Unescape(Quoted(Statements(output_lines)[1])) = syms[1].str_value

\* ------------------------------------------------------------------ C9
ValueVisited == pc = "loop" /\ idx <= Len(syms)
                /\ syms[idx].type \in {"INT", "HEX", "STRING"}

\* C9: a symbol of type integer, hexadecimal or string with an empty value
\* contributes no define and no statement; otherwise it contributes the
\* defines <name>=<value> and CONFIG_<name>=<value> and one statement for
\* CONFIG_<name>, the define value being the resolved value, wrapped in
\* double quotes for the string type only.
C9_ValueContribution ==
    [][ValueVisited =>
          LET s == syms[idx]
              n == s.name
              v == IF s.type = "STRING" THEN <<DQ>> \o s.str_value \o <<DQ>>
                   ELSE s.str_value
          IN IF s.str_value = <<>>
             THEN defines' = defines /\ cmake_sets' = cmake_sets
             ELSE /\ DOMAIN defines' = DOMAIN defines \cup {n, CONFIG_ \o n}
                  /\ defines'[n] = v
                  /\ defines'[CONFIG_ \o n] = v
                  /\ \A k \in DOMAIN defines \ {n, CONFIG_ \o n} : defines'[k] = defines[k]
                  /\ Len(cmake_sets') = Len(cmake_sets) + 1
                  /\ SubSeq(cmake_sets', 1, Len(cmake_sets)) = cmake_sets
                  /\ StatementKey(cmake_sets'[Len(cmake_sets')]) = CONFIG_ \o n]_vars

\* A string symbol has been visited after another symbol wrote its defines.
C9_Witness ==
    /\ pc = "loop"
    /\ idx = 3
    /\ Emits(syms[1])
    /\ syms[2].type = "STRING"
    /\ syms[2].str_value = <<"a", BS, DQ>>
    /\ defines[syms[2].name] = <<DQ, "a", BS, DQ, DQ>>
    /\ Len(cmake_sets) = 2

\* ------------------------------------------------------------------ C10
RECURSIVE FoldDefines(_, _)
FoldDefines(tree, d) ==
    IF tree = <<>> THEN d ELSE FoldDefines(Tail(tree), VisitDefines(Head(tree), d))

RECURSIVE FoldSets(_, _)
FoldSets(tree, sets) ==
    IF tree = <<>> THEN sets ELSE FoldSets(Tail(tree), VisitSets(Head(tree), sets))

\* The document of a run that returns 0, from its inputs alone.
DocumentOf(schema_present, tree) ==
    IF schema_present
    THEN Join(AssembleLines(FoldDefines(tree, NoDefines), FoldSets(tree, <<>>)))
    ELSE PlaceholderText

\* C10: after each run that returns 0, whatever runs came before on the same
\* output path, the file is the document of that run's inputs: nothing of the
\* earlier content survives.
C10_FullyRewritten ==
    (pc = "done" /\ rc = 0) => out_file = DocumentOf(kconfig_is_file, syms)

\* A run without schema after a run that wrote a full document.
C10_Witness ==
    /\ pc = "done"
    /\ rc = 0
    /\ runs = 2
    /\ ~kconfig_is_file
    /\ prev_file \notin {NoFile, PlaceholderText}
    /\ out_file = PlaceholderText

====
